---- MODULE Spec2Model ----
(***************************************************************************)
(* PMS (src/PMS.py): a periodic ping monitor.                              *)
(*                                                                         *)
(* The GUI thread owns the device list (PingMonitor.devices) and runs the  *)
(* handlers add_device, remove_device, clear_stats, start, stop and the    *)
(* timer slot ping_all.  Every ping_all starts a QThread whose PingWorker  *)
(* iterates over the SAME list object and updates the SAME Device objects  *)
(* the GUI thread mutates.  Device objects are modelled as cells of a heap *)
(* (a worker keeps its reference to a Device after remove_device deleted   *)
(* it from the list); the worker's statements are separate steps, because  *)
(* the GUI thread and other workers run between them (an augmented         *)
(* assignment x.f += 1 is a read followed by a write).                     *)
(*                                                                         *)
(* Strings are sequences of one-character strings.                         *)
(*                                                                         *)
(* A GUI handler is one step: handlers run to completion on the GUI thread *)
(* and never interleave with each other.  The stores of clear_stats are    *)
(* taken together; the worker's steps fall before or after them.           *)
(*                                                                         *)
(* Assumption: a QThread started by an earlier ping_all keeps running      *)
(* after ping_all rebinds self.thread and self.worker.                     *)
(*                                                                         *)
(* The QTimer is its being armed, its period and the time left of the      *)
(* period; ping_all is the step in which the rest of the period passes and *)
(* the timer fires.  A worker's update_device signal is queued to the GUI  *)
(* thread: update_device_row handles a tick's signals later, in the order  *)
(* emitted (the order between the signals of two ticks is left open).      *)
(*                                                                         *)
(* Specifications: Spec (handlers, timer and workers), SpecTick (the same  *)
(* within smaller bounds), SpecRegistry (the handlers alone, all argument  *)
(* values), SpecMonitor (adding, starting and stopping, with the worker    *)
(* threads scheduled fairly), SpecRows and SpecTickRows (Spec's and        *)
(* SpecTick's steps and the delivery of the signals) and SpecScheduler     *)
(* (start, stop, the settings dialog and time passing).                    *)
(***************************************************************************)
EXTENDS Integers, Sequences, FiniteSets, TLC

(* ----------------------------- bounds --------------------------------- *)
\* Spec: successful add_device calls, ping_all calls (ticks), calls of GUI handlers
MaxAdds == 2
MaxTicks == 2
MaxCalls == 3
\* SpecTick: the same three, for a single tick
MaxTickAdds == 1
MaxTickRuns == 1
MaxTickCalls == 2
\* SpecRegistry: successful add_device calls, calls of GUI handlers
MaxRegistryAdds == 3
MaxRegistryCalls == 5
\* SpecMonitor: successful add_device calls, ticks, calls of GUI handlers
MaxMonitorAdds == 1
MaxMonitorTicks == 1
MaxMonitorCalls == 3
\* SpecRows: the same three
MaxRowAdds == 1
MaxRowTicks == 1
MaxRowCalls == 3
\* SpecScheduler: ticks, calls of GUI handlers
MaxSchedulerTicks == 1
MaxSchedulerCalls == 3

(* ------------------------ program constants --------------------------- *)
\* PingMonitor.__init__: self.ping_interval = 1 (seconds)
InitialPingInterval == 1
\* PingMonitor.__init__: self.ping_timeout = 1000 (milliseconds)
InitialPingTimeout == 1000
\* PingMonitor.__init__: self.interface_name = "enp3s0"
InitialInterfaceName == <<"e", "n", "p", "3", "s", "0">>

(* --------------------------- input sets ------------------------------- *)
Whitespace == {" ", "\t"}
\* the ip argument of add_device: empty, or an address
IpInputs == {<<>>, <<"1">>}
\* the name argument of add_device: empty, blank, or a label
NameInputs == {<<>>, <<" ">>, <<"c">>}
\* the index argument of remove_device (0-based), out-of-range values included
IndexInputs == (-1)..MaxRegistryAdds
\* what the settings dialog holds when it closes: the spin boxes have minimum 1
\* (interval, s) and 100..10000 (timeout, ms); the interface field is free text
IntervalInputs == {1, 2}
TimeoutInputs == {1000, 2500}
InterfaceInputs == {<<>>, <<" ">>, <<"e">>}
\* time steps, ms
ElapseInputs == {500}
\* how a probe ends: ping exits 0, ping exits non-zero, subprocess.run raises
Outcomes == {"ok", "nonzero", "raise"}
Ticks == 1..MaxTicks

(* --------------------------- pure helpers ----------------------------- *)
RECURSIVE LStrip(_)
LStrip(s) == IF s # <<>> /\ Head(s) \in Whitespace THEN LStrip(Tail(s)) ELSE s

RECURSIVE RStrip(_)
RStrip(s) ==
  IF s # <<>> /\ s[Len(s)] \in Whitespace THEN RStrip(SubSeq(s, 1, Len(s) - 1)) ELSE s

\* str.strip()
Strip(s) == RStrip(LStrip(s))

DigitChar(d) == <<"0", "1", "2", "3", "4", "5", "6", "7", "8", "9">>[d + 1]

\* str(n) for n >= 0
RECURSIVE IntToStr(_)
IntToStr(n) == IF n < 10 THEN <<DigitChar(n)>> ELSE IntToStr(n \div 10) \o <<DigitChar(n % 10)>>

\* f"Switch{n}"
SwitchName(n) == <<"S", "w", "i", "t", "c", "h">> \o IntToStr(n)

\* Device(ip=ip, name=name): the dataclass defaults
NewDevice(ip, name) ==
  [ip |-> ip, name |-> name, success |-> 0, fail |-> 0, total |-> 0,
   last_result |-> FALSE, is_active |-> TRUE]

\* ListDel deleting the element after the one asked for
ListDelNext(lst, index) == SubSeq(lst, 1, index + 1) \o SubSeq(lst, index + 3, Len(lst))

\* del lst[index], index 0-based and in range
ListDel(lst, index) == SubSeq(lst, 1, index) \o SubSeq(lst, index + 2, Len(lst))

Range(s) == {s[i] : i \in 1..Len(s)}

(* ------------------------------ state --------------------------------- *)
VARIABLES
  devices,        \* PingMonitor.devices: the list, as references into heap
  heap,           \* the Device objects ever created; heap[id] is object id
  unnamed_count,  \* PingMonitor.unnamed_count
  running,        \* PingMonitor.running
  timerActive,    \* PingMonitor.timer is armed
  timerInterval,  \* its period in ms (0 while never started)
  timerRemaining, \* ms until its next timeout (-1 while it is not armed)
  ping_interval,  \* PingMonitor.ping_interval, seconds
  ping_timeout,   \* PingMonitor.ping_timeout, ms
  interface_name, \* PingMonitor.interface_name
  worker,         \* worker[t]: the PingWorker started by the t-th ping_all
  nticks,         \* ping_all calls so far
  hist,           \* per tick: what it emitted and what happened to the list
  delivered,      \* per tick: how many of its update_device signals reached the slot
  autoNamed,      \* the Devices add_device made a name for, oldest first
  removed,        \* per Device: <<>>, or <<its fields when remove_device deleted it>>
  cleared,        \* Devices that were in the list at some clear_stats
  lastCall        \* the last call of a GUI handler, and how many there were

vars == <<devices, heap, unnamed_count, running, timerActive, timerInterval,
          timerRemaining, ping_interval, ping_timeout, interface_name,
          worker, nticks, hist, delivered, autoNamed, removed, cleared, lastCall>>

\* what open_settings edits
settings == <<ping_interval, ping_timeout, interface_name>>

\* PingWorker.__init__ then thread not yet started / run() position
NoWorker ==
  [pc |-> "none", it |-> 0, index |-> 0, device |-> 0, result |-> "none",
   todo |-> <<>>, tmp |-> 0]

\* what is recorded about a tick: the list when ping_all ran, the signals run()
\* emitted, the Devices add_device appended and remove_device deleted (before
\* their probe had an outcome) while it ran, the number of such calls, and
\* whether a value read before a clear_stats was written back after it
NoHist ==
  [start |-> <<>>, log |-> <<>>, removedMid |-> {}, addedMid |-> {}, mutations |-> 0,
   stale |-> "no"]

NoCall == [n |-> 0, op |-> "none", ip |-> <<>>, name |-> <<>>, index |-> 0]

Active(t) == worker[t].pc \notin {"none", "done"}

Init ==
  /\ devices = <<>>
  /\ heap = <<>>
  /\ unnamed_count = 0
  /\ running = FALSE
  /\ timerActive = FALSE
  /\ timerInterval = 0
  /\ timerRemaining = -1
  /\ ping_interval = InitialPingInterval
  /\ ping_timeout = InitialPingTimeout
  /\ interface_name = InitialInterfaceName
  /\ worker = [t \in Ticks |-> NoWorker]
  /\ nticks = 0
  /\ hist = [t \in Ticks |-> NoHist]
  /\ delivered = [t \in Ticks |-> 0]
  /\ autoNamed = <<>>
  /\ removed = <<>>
  /\ cleared = {}
  /\ lastCall = NoCall

(* ------------------------- GUI thread handlers ------------------------ *)
\* The cells of the QTableWidget that refresh_table and update_device_row
\* repaint are not part of this model: they are written from the state below
\* and never read back.  After every handler the table has one row per Device
\* of the list, in list order (refresh_table, lines 255-274).

\* the worker of tick t has an outcome for Device id (its subprocess.run returned
\* or raised), in this tick
Resolved(t, id) ==
  \/ \E k \in 1..Len(hist[t].log) : hist[t].log[k].device = id
  \/ worker[t].device = id /\ worker[t].pc \in {"load", "store", "last", "emit"}

\* add_device making the name before it looks at the address
add_device_named_first(ip, name) ==
  LET auto == Strip(name) = <<>>
      cnt == IF auto THEN unnamed_count + 1 ELSE unnamed_count
      nm == IF auto THEN SwitchName(cnt) ELSE name
      id == Len(heap) + 1
  IN /\ unnamed_count' = cnt
     /\ IF ip = <<>>
        THEN UNCHANGED <<devices, heap, hist, removed, autoNamed>>
        ELSE /\ heap' = Append(heap, NewDevice(ip, nm))
             /\ devices' = Append(devices, id)
             /\ removed' = Append(removed, <<>>)
             /\ autoNamed' = IF auto THEN Append(autoNamed, id) ELSE autoNamed
             /\ hist' = [t \in Ticks |->
                           IF Active(t)
                           THEN [hist[t] EXCEPT !.addedMid = @ \cup {id},
                                                !.mutations = @ + 1]
                           ELSE hist[t]]
     /\ UNCHANGED <<running, timerActive, timerInterval, worker, nticks, cleared,
                    settings, timerRemaining, delivered>>

\* add_device(ip, name), lines 238-248
add_device(ip, name) ==
  IF ip = <<>>
  THEN \* QMessageBox.warning; return
       UNCHANGED <<devices, heap, unnamed_count, running, timerActive, timerInterval,
                   worker, nticks, hist, removed, cleared,
                   settings, timerRemaining, delivered, autoNamed>>
  ELSE /\ LET auto == Strip(name) = <<>>
              cnt == IF auto THEN unnamed_count + 1 ELSE unnamed_count
              nm == IF auto THEN SwitchName(cnt) ELSE name
              id == Len(heap) + 1
          IN /\ unnamed_count' = cnt
             /\ heap' = Append(heap, NewDevice(ip, nm))
             /\ devices' = Append(devices, id)
             /\ removed' = Append(removed, <<>>)
             /\ autoNamed' = IF auto THEN Append(autoNamed, id) ELSE autoNamed
             /\ hist' = [t \in Ticks |->
                           IF Active(t)
                           THEN [hist[t] EXCEPT !.addedMid = @ \cup {id},
                                                !.mutations = @ + 1]
                           ELSE hist[t]]
       /\ UNCHANGED <<running, timerActive, timerInterval, worker, nticks, cleared,
                      settings, timerRemaining, delivered>>

\* remove_device giving the removed Device's number back to the auto-name counter
remove_device_renumber(index) ==
  IF 0 <= index /\ index < Len(devices)
  THEN LET id == devices[index + 1]
       IN /\ devices' = ListDel(devices, index)
          /\ unnamed_count' = IF unnamed_count > 0 THEN unnamed_count - 1 ELSE 0
          /\ removed' = [removed EXCEPT ![id] = <<heap[id]>>]
          /\ hist' = [t \in Ticks |->
                        IF Active(t)
                        THEN [hist[t] EXCEPT
                                !.removedMid =
                                  IF id \in Range(hist[t].start) /\ ~Resolved(t, id)
                                  THEN @ \cup {id} ELSE @,
                                !.mutations = @ + 1]
                        ELSE hist[t]]
          /\ UNCHANGED <<heap, running, timerActive, timerInterval, worker, nticks,
                         cleared, settings, timerRemaining, delivered, autoNamed>>
  ELSE UNCHANGED <<devices, heap, unnamed_count, running, timerActive, timerInterval,
                   worker, nticks, hist, removed, cleared,
                   settings, timerRemaining, delivered, autoNamed>>

\* remove_device(index), lines 250-253
remove_device(index) ==
  IF 0 <= index /\ index < Len(devices)
  THEN LET id == devices[index + 1]
       IN /\ devices' = ListDel(devices, index)
          /\ removed' = [removed EXCEPT ![id] = <<heap[id]>>]
          /\ hist' = [t \in Ticks |->
                        IF Active(t)
                        THEN [hist[t] EXCEPT
                                !.removedMid =
                                  IF id \in Range(hist[t].start) /\ ~Resolved(t, id)
                                  THEN @ \cup {id} ELSE @,
                                !.mutations = @ + 1]
                        ELSE hist[t]]
          /\ UNCHANGED <<heap, unnamed_count, running, timerActive, timerInterval,
                         worker, nticks, cleared,
                         settings, timerRemaining, delivered, autoNamed>>
  ELSE UNCHANGED <<devices, heap, unnamed_count, running, timerActive, timerInterval,
                   worker, nticks, hist, removed, cleared,
                   settings, timerRemaining, delivered, autoNamed>>

\* clear_stats resetting last_result with the counters
clear_stats_all ==
  /\ heap' = [id \in 1..Len(heap) |->
                IF id \in Range(devices)
                THEN [heap[id] EXCEPT !.success = 0, !.fail = 0, !.total = 0,
                                      !.last_result = FALSE]
                ELSE heap[id]]
  /\ cleared' = cleared \cup Range(devices)
  /\ hist' = [t \in Ticks |->
                IF worker[t].pc = "store" /\ worker[t].device \in Range(devices)
                THEN [hist[t] EXCEPT !.stale = IF @ = "no" THEN "read" ELSE @]
                ELSE hist[t]]
  /\ UNCHANGED <<devices, unnamed_count, running, timerActive, timerInterval,
                 worker, nticks, removed,
                 settings, timerRemaining, delivered, autoNamed>>

\* clear_stats(), lines 286-289
clear_stats ==
  /\ heap' = [id \in 1..Len(heap) |->
                IF id \in Range(devices)
                THEN [heap[id] EXCEPT !.success = 0, !.fail = 0, !.total = 0]
                ELSE heap[id]]
  /\ cleared' = cleared \cup Range(devices)
  /\ hist' = [t \in Ticks |->
                IF worker[t].pc = "store" /\ worker[t].device \in Range(devices)
                THEN [hist[t] EXCEPT !.stale = IF @ = "no" THEN "read" ELSE @]
                ELSE hist[t]]
  /\ UNCHANGED <<devices, unnamed_count, running, timerActive, timerInterval,
                 worker, nticks, removed,
                 settings, timerRemaining, delivered, autoNamed>>

\* start(), lines 225-229
start ==
  /\ running' = TRUE
  /\ timerActive' = TRUE
  /\ timerInterval' = ping_interval * 1000
  /\ timerRemaining' = ping_interval * 1000
  /\ UNCHANGED <<devices, heap, unnamed_count, worker, nticks, hist, removed, cleared,
                 settings, delivered, autoNamed>>

\* stop terminating the worker threads that are running
stop_terminate ==
  /\ running' = FALSE
  /\ timerActive' = FALSE
  /\ timerRemaining' = -1
  /\ worker' = [t \in Ticks |->
                  IF Active(t) THEN [worker[t] EXCEPT !.pc = "terminated"] ELSE worker[t]]
  /\ UNCHANGED <<devices, heap, unnamed_count, timerInterval, nticks, hist,
                 removed, cleared, settings, delivered, autoNamed>>

\* stop(), lines 231-236
stop ==
  /\ running' = FALSE
  /\ timerActive' = FALSE
  /\ timerRemaining' = -1
  /\ UNCHANGED <<devices, heap, unnamed_count, timerInterval, worker, nticks, hist,
                 removed, cleared, settings, delivered, autoNamed>>

\* toggle_start_stop(), lines 219-223
toggle_start_stop == IF running THEN stop ELSE start

\* open_settings restarting the timer whether or not monitoring is running
open_settings_always(accepted, interval, timeout, iface) ==
  IF accepted
  THEN /\ ping_interval' = interval
       /\ ping_timeout' = timeout
       /\ interface_name' = IF Strip(iface) # <<>> THEN Strip(iface) ELSE interface_name
       /\ timerActive' = TRUE
       /\ timerInterval' = interval * 1000
       /\ timerRemaining' = interval * 1000
       /\ UNCHANGED <<devices, heap, unnamed_count, running, worker, nticks, hist,
                      removed, cleared, delivered, autoNamed>>
  ELSE UNCHANGED <<devices, heap, unnamed_count, running, timerActive, timerInterval,
                   timerRemaining, settings, worker, nticks, hist, removed, cleared,
                   delivered, autoNamed>>

\* open_settings(), lines 291-300: the dialog is modal; `accepted` is what
\* dialog.exec_() returns, the other arguments are what its fields hold then
open_settings(accepted, interval, timeout, iface) ==
  IF accepted
  THEN /\ ping_interval' = interval
       /\ ping_timeout' = timeout
       /\ interface_name' = IF Strip(iface) # <<>> THEN Strip(iface) ELSE interface_name
       /\ IF running
          THEN \* QTimer.start(msec) on an armed timer stops and restarts it
               /\ timerActive' = TRUE
               /\ timerInterval' = interval * 1000
               /\ timerRemaining' = interval * 1000
          ELSE UNCHANGED <<timerActive, timerInterval, timerRemaining>>
       /\ UNCHANGED <<devices, heap, unnamed_count, running, worker, nticks, hist,
                      removed, cleared, delivered, autoNamed>>
  ELSE UNCHANGED <<devices, heap, unnamed_count, running, timerActive, timerInterval,
                   timerRemaining, settings, worker, nticks, hist, removed, cleared,
                   delivered, autoNamed>>

\* time passes, less than what is left of the timer's period (line 227: the timer
\* counts down from the period it was started with)
elapse(ms) ==
  /\ timerActive
  /\ 0 < ms /\ ms < timerRemaining
  /\ timerRemaining' = timerRemaining - ms
  /\ UNCHANGED <<devices, heap, unnamed_count, running, timerActive, timerInterval,
                 settings, worker, nticks, hist, removed, cleared, delivered,
                 autoNamed>>

\* ping_all(), lines 302-313: the timer's timeout slot, run when the rest of the
\* period has passed (line 122); the timer starts its next period; the worker
\* gets the list object itself (line 304), thread.start() lets run() begin
ping_all ==
  /\ timerActive
  /\ timerRemaining' = timerInterval
  /\ nticks' = nticks + 1
  /\ worker' = [worker EXCEPT ![nticks + 1] = [NoWorker EXCEPT !.pc = "loop"]]
  /\ hist' = [hist EXCEPT ![nticks + 1] = [NoHist EXCEPT !.start = devices]]
  /\ UNCHANGED <<devices, heap, unnamed_count, running, timerActive, timerInterval,
                 removed, cleared, settings, delivered, autoNamed>>

\* update_device_row(index, device), lines 315-319: the slot of the worker's
\* update_device signal; the signal is emitted in the worker thread, so the call
\* is queued and runs later in the GUI thread, one tick's signals in the order
\* emitted.  It repaints row `index` of the table from `device`.
update_device_row(t) ==
  /\ delivered[t] < Len(SelectSeq(hist[t].log, LAMBDA e : e.kind = "update"))
  /\ delivered' = [delivered EXCEPT ![t] = @ + 1]
  /\ UNCHANGED <<devices, heap, unnamed_count, running, timerActive, timerInterval,
                 timerRemaining, settings, worker, nticks, hist, removed, cleared,
                 autoNamed>>

(* ------------------------ PingWorker.run, per statement --------------- *)
Finished == [kind |-> "finished", index |-> -1, device |-> 0, result |-> "none"]

\* the statements that update the counters, in the order run() executes them:
\* lines 96-98 / 96,101 after subprocess.run returned, lines 104-105 after it raised
MergePlan(outcome) ==
  CASE outcome = "ok" -> <<"total", "success">>
    [] outcome = "nonzero" -> <<"total", "fail">>
    [] outcome = "raise" -> <<"fail", "total">>

\* line 87: timeout_sec = max(1, int(self.timeout / 1000))
TimeoutSec(timeout) == IF timeout \div 1000 > 1 THEN timeout \div 1000 ELSE 1

\* how long subprocess.run (lines 90-95) blocks, in ms: a host that answers does so
\* at once; ping -W waits timeout_sec for one that does not; subprocess.run
\* raises TimeoutExpired after timeout_sec + 1.  The workers get ping_timeout as
\* it is at ping_all (line 304); no specification with probes has open_settings
\* among its steps, so that is the initial value
ProbeTime(outcome) ==
  CASE outcome = "ok" -> 1
    [] outcome = "nonzero" -> TimeoutSec(InitialPingTimeout) * 1000
    [] outcome = "raise" -> (TimeoutSec(InitialPingTimeout) + 1) * 1000

\* run_loop taking its Devices off the list
run_loop_pop(t) ==
  /\ worker[t].pc = "loop"
  /\ IF devices # <<>>
     THEN /\ worker' = [worker EXCEPT ![t].index = worker[t].it,
                                      ![t].device = Head(devices),
                                      ![t].it = @ + 1,
                                      ![t].pc = "probe"]
          /\ devices' = Tail(devices)
     ELSE /\ worker' = [worker EXCEPT ![t].pc = "finish"]
          /\ devices' = devices
  /\ UNCHANGED <<heap, unnamed_count, running, timerActive, timerInterval,
                 nticks, hist, removed, cleared,
                 settings, timerRemaining, delivered, autoNamed>>

\* run_loop leaving the loop one item early
run_loop_early(t) ==
  /\ worker[t].pc = "loop"
  /\ IF worker[t].it + 1 < Len(devices)
     THEN worker' = [worker EXCEPT ![t].index = worker[t].it,
                                   ![t].device = devices[worker[t].it + 1],
                                   ![t].it = @ + 1,
                                   ![t].pc = "probe"]
     ELSE worker' = [worker EXCEPT ![t].pc = "finish"]
  /\ UNCHANGED <<devices, heap, unnamed_count, running, timerActive, timerInterval,
                 nticks, hist, removed, cleared,
                 settings, timerRemaining, delivered, autoNamed>>

\* line 88: the for statement asks the list iterator for the next item; the
\* iterator holds the list and a position, and compares the position with the
\* list's length at that moment
run_loop(t) ==
  /\ worker[t].pc = "loop"
  /\ IF worker[t].it < Len(devices)
     THEN worker' = [worker EXCEPT ![t].index = worker[t].it,
                                   ![t].device = devices[worker[t].it + 1],
                                   ![t].it = @ + 1,
                                   ![t].pc = "probe"]
     ELSE worker' = [worker EXCEPT ![t].pc = "finish"]
  /\ UNCHANGED <<devices, heap, unnamed_count, running, timerActive, timerInterval,
                 nticks, hist, removed, cleared,
                 settings, timerRemaining, delivered, autoNamed>>

\* lines 90-95: subprocess.run returns or raises
run_probe(t, outcome) ==
  /\ worker[t].pc = "probe"
  /\ worker' = [worker EXCEPT ![t].result = outcome,
                              ![t].todo = MergePlan(outcome),
                              ![t].pc = "load"]
  /\ UNCHANGED <<devices, heap, unnamed_count, running, timerActive, timerInterval,
                 nticks, hist, removed, cleared,
                 settings, timerRemaining, delivered, autoNamed>>

\* device.<field> += 1, first half: read the attribute
run_load(t) ==
  /\ worker[t].pc = "load"
  /\ worker' = [worker EXCEPT ![t].tmp = heap[worker[t].device][Head(worker[t].todo)],
                              ![t].pc = "store"]
  /\ UNCHANGED <<devices, heap, unnamed_count, running, timerActive, timerInterval,
                 nticks, hist, removed, cleared,
                 settings, timerRemaining, delivered, autoNamed>>

\* device.<field> += 1, second half: write the sum back
run_store(t) ==
  /\ worker[t].pc = "store"
  /\ heap' = [heap EXCEPT ![worker[t].device][Head(worker[t].todo)] = worker[t].tmp + 1]
  /\ worker' = [worker EXCEPT ![t].todo = Tail(@),
                              ![t].tmp = 0,
                              ![t].pc = IF Tail(worker[t].todo) = <<>> THEN "last" ELSE "load"]
  /\ hist' = [hist EXCEPT ![t].stale = IF @ = "read" THEN "written" ELSE @]
  /\ UNCHANGED <<devices, unnamed_count, running, timerActive, timerInterval,
                 nticks, removed, cleared,
                 settings, timerRemaining, delivered, autoNamed>>

\* lines 99, 102, 106: device.last_result = True / False
run_last(t) ==
  /\ worker[t].pc = "last"
  /\ heap' = [heap EXCEPT ![worker[t].device].last_result = (worker[t].result = "ok")]
  /\ worker' = [worker EXCEPT ![t].pc = "emit"]
  /\ UNCHANGED <<devices, unnamed_count, running, timerActive, timerInterval,
                 nticks, hist, removed, cleared,
                 settings, timerRemaining, delivered, autoNamed>>

\* line 107: self.update_device.emit(index, device)
run_emit(t) ==
  /\ worker[t].pc = "emit"
  /\ hist' = [hist EXCEPT ![t].log =
                Append(@, [kind |-> "update", index |-> worker[t].index,
                           device |-> worker[t].device, result |-> worker[t].result])]
  \* index, device and result are not read again before line 88 rebinds them
  /\ worker' = [worker EXCEPT ![t] = [NoWorker EXCEPT !.pc = "loop", !.it = worker[t].it]]
  /\ UNCHANGED <<devices, heap, unnamed_count, running, timerActive, timerInterval,
                 nticks, removed, cleared,
                 settings, timerRemaining, delivered, autoNamed>>

\* line 108: self.finished.emit(); run() returns
run_finish(t) ==
  /\ worker[t].pc = "finish"
  /\ hist' = [hist EXCEPT ![t].log = Append(@, Finished)]
  /\ worker' = [worker EXCEPT ![t].pc = "done"]
  /\ UNCHANGED <<devices, heap, unnamed_count, running, timerActive, timerInterval,
                 nticks, removed, cleared,
                 settings, timerRemaining, delivered, autoNamed>>

\* one step of the worker thread of tick t
run(t) ==
  \/ run_loop(t)
  \/ \E outcome \in Outcomes : run_probe(t, outcome)
  \/ run_load(t)
  \/ run_store(t)
  \/ run_last(t)
  \/ run_emit(t)
  \/ run_finish(t)

(* --------------------------- specifications --------------------------- *)
\* the user calls a GUI handler: at most `budget` calls are made
Called(budget, op, ip, name, index) ==
  /\ lastCall.n < budget
  /\ lastCall' = [n |-> lastCall.n + 1, op |-> op, ip |-> ip, name |-> name, index |-> index]

\* the application: the GUI thread's handlers, the timer and the worker threads,
\* with at most `adds` Devices created, `ticks` ticks and `calls` handler calls
NextWith(adds, ticks, calls) ==
  \/ \E ip \in IpInputs, name \in {<<>>} :
       /\ ip = <<>> \/ Len(heap) < adds
       /\ Called(calls, "add_device", ip, name, 0)
       /\ add_device(ip, name)
  \/ \E index \in IndexInputs :
       Called(calls, "remove_device", <<>>, <<>>, index) /\ remove_device(index)
  \/ Called(calls, "clear_stats", <<>>, <<>>, 0) /\ clear_stats
  \/ Called(calls, "toggle_start_stop", <<>>, <<>>, 0) /\ toggle_start_stop
  \/ nticks < ticks /\ ping_all /\ UNCHANGED lastCall
  \/ \E t \in Ticks : run_loop(t) /\ UNCHANGED lastCall
  \/ \E t \in Ticks, outcome \in Outcomes : run_probe(t, outcome) /\ UNCHANGED lastCall
  \/ \E t \in Ticks : run_load(t) /\ UNCHANGED lastCall
  \/ \E t \in Ticks : run_store(t) /\ UNCHANGED lastCall
  \/ \E t \in Ticks : run_last(t) /\ UNCHANGED lastCall
  \/ \E t \in Ticks : run_emit(t) /\ UNCHANGED lastCall
  \/ \E t \in Ticks : run_finish(t) /\ UNCHANGED lastCall

Next == NextWith(MaxAdds, MaxTicks, MaxCalls)

Spec == Init /\ [][Next]_vars

\* the same application within the smaller bounds
NextTick == NextWith(MaxTickAdds, MaxTickRuns, MaxTickCalls)

SpecTick == Init /\ [][NextTick]_vars

\* the registry alone: the GUI handlers with the timer never firing
NextRegistry ==
  \/ \E ip \in IpInputs, name \in NameInputs :
       /\ ip = <<>> \/ Len(heap) < MaxRegistryAdds
       /\ Called(MaxRegistryCalls, "add_device", ip, name, 0)
       /\ add_device(ip, name)
  \/ \E index \in IndexInputs :
       Called(MaxRegistryCalls, "remove_device", <<>>, <<>>, index) /\ remove_device(index)
  \/ Called(MaxRegistryCalls, "clear_stats", <<>>, <<>>, 0) /\ clear_stats
  \/ Called(MaxRegistryCalls, "toggle_start_stop", <<>>, <<>>, 0) /\ toggle_start_stop

SpecRegistry == Init /\ [][NextRegistry]_vars

\* the worker threads' steps
WorkerSteps ==
  \/ \E t \in Ticks : run_loop(t) /\ UNCHANGED lastCall
  \/ \E t \in Ticks, outcome \in Outcomes : run_probe(t, outcome) /\ UNCHANGED lastCall
  \/ \E t \in Ticks : run_load(t) /\ UNCHANGED lastCall
  \/ \E t \in Ticks : run_store(t) /\ UNCHANGED lastCall
  \/ \E t \in Ticks : run_last(t) /\ UNCHANGED lastCall
  \/ \E t \in Ticks : run_emit(t) /\ UNCHANGED lastCall
  \/ \E t \in Ticks : run_finish(t) /\ UNCHANGED lastCall

\* a monitoring session: Devices are added, monitoring is started and stopped,
\* the timer fires and the workers run
NextMonitor ==
  \/ \E ip \in IpInputs, name \in {<<>>} :
       /\ ip = <<>> \/ Len(heap) < MaxMonitorAdds
       /\ Called(MaxMonitorCalls, "add_device", ip, name, 0)
       /\ add_device(ip, name)
  \/ Called(MaxMonitorCalls, "toggle_start_stop", <<>>, <<>>, 0) /\ toggle_start_stop
  \/ nticks < MaxMonitorTicks /\ ping_all /\ UNCHANGED lastCall
  \/ WorkerSteps

\* a started worker thread keeps being scheduled, and every subprocess.run
\* returns or raises (it has a timeout, line 94)
FairMonitor == \A t \in 1..MaxMonitorTicks : WF_vars(run(t) /\ UNCHANGED lastCall)

SpecMonitor == Init /\ [][NextMonitor]_vars /\ FairMonitor

\* the application with the delivery of the workers' signals
NextRows ==
  \/ NextWith(MaxRowAdds, MaxRowTicks, MaxRowCalls)
  \/ \E t \in Ticks : update_device_row(t) /\ UNCHANGED lastCall

SpecRows == Init /\ [][NextRows]_vars

\* the same within the bounds of SpecTick
NextTickRows ==
  \/ NextTick
  \/ \E t \in Ticks : update_device_row(t) /\ UNCHANGED lastCall

SpecTickRows == Init /\ [][NextTickRows]_vars

\* the user calls open_settings: lastCall.op tells whether the dialog was
\* accepted, lastCall.index is the interval it held
CalledSettings(budget, accepted, interval, iface) ==
  Called(budget, IF accepted THEN "open_settings" ELSE "open_settings_cancel",
         <<>>, iface, interval)

\* the scheduler: start and stop (called directly or through the toggle button),
\* the settings dialog, time passing and the timer firing over an empty list
NextScheduler ==
  \/ Called(MaxSchedulerCalls, "start", <<>>, <<>>, 0) /\ start
  \/ Called(MaxSchedulerCalls, "stop", <<>>, <<>>, 0) /\ stop
  \/ Called(MaxSchedulerCalls, "toggle_start_stop", <<>>, <<>>, 0) /\ toggle_start_stop
  \/ \E accepted \in BOOLEAN, interval \in IntervalInputs, timeout \in TimeoutInputs,
        iface \in InterfaceInputs :
       /\ CalledSettings(MaxSchedulerCalls, accepted, interval, iface)
       /\ open_settings(accepted, interval, timeout, iface)
  \/ \E ms \in ElapseInputs : elapse(ms) /\ UNCHANGED lastCall
  \/ nticks < MaxSchedulerTicks /\ ping_all /\ UNCHANGED lastCall
  \/ \E t \in Ticks : run_loop(t) /\ UNCHANGED lastCall
  \/ \E t \in Ticks : run_finish(t) /\ UNCHANGED lastCall

SpecScheduler == Init /\ [][NextScheduler]_vars

(* ------------------------------ claims -------------------------------- *)
IsUpdate(e) == e.kind = "update"

\* the update_device signals tick t has emitted, in order
Updates(t) == SelectSeq(hist[t].log, IsUpdate)

\* how many update_device signals of tick t carry Device d
EventsFor(t, d) ==
  Cardinality({k \in 1..Len(hist[t].log) :
                 hist[t].log[k].kind = "update" /\ hist[t].log[k].device = d})

\* some worker has an outcome for Device d and has not finished applying it
MergeInFlight(d) ==
  \E t \in Ticks : worker[t].device = d /\ worker[t].pc \in {"load", "store", "last"}

\* the time, from the start of run(), at which tick t emits its j-th
\* update_device: the probes run one after the other (lines 88-107)
RECURSIVE EmitTime(_, _)
EmitTime(t, j) == IF j = 0 THEN 0 ELSE EmitTime(t, j - 1) + ProbeTime(Updates(t)[j].result)

AllQuiet == \A t \in Ticks : ~Active(t)

\* the update_device signals, of all ticks, that carry Device d
ProbesOf(d) ==
  UNION {{<<t, k>> : k \in {k \in 1..Len(hist[t].log) :
                               /\ hist[t].log[k].kind = "update"
                               /\ hist[t].log[k].device = d}} : t \in Ticks}

\* C1: whenever no merge of a probe result into a Device is partway through, that
\* Device has total = success + fail; a Device no probe has had an outcome for
\* has all three counters 0.
C1_CountersAddUp ==
  \A d \in 1..Len(heap) :
    /\ ~MergeInFlight(d) => heap[d].total = heap[d].success + heap[d].fail
    /\ (d \notin cleared /\ \A t \in Ticks : ~Resolved(t, d))
         => heap[d].success = 0 /\ heap[d].fail = 0 /\ heap[d].total = 0

\* C2: clear_stats is atomic with respect to a merge in flight: no worker writes
\* back, after clear_stats returned, a counter value it read before the clear.
C2_ClearAtomic == \A t \in Ticks : hist[t].stale # "written"

\* C3: once the ticks are over, a Device that is still in the list, was never
\* cleared and was found reachable by every one of the N probes made of it has
\* success = N, fail = 0, total = N, and last_result = reachable.
C3_AlwaysReachable ==
  \A d \in Range(devices) :
    LET probes == ProbesOf(d)
        N == Cardinality(probes)
    IN (/\ AllQuiet
        /\ d \notin cleared
        /\ N >= 1
        /\ \A p \in probes : hist[p[1]].log[p[2]].result = "ok")
       => /\ heap[d].success = N
          /\ heap[d].fail = 0
          /\ heap[d].total = N
          /\ heap[d].last_result = TRUE

\* C4: the increments of two workers on one Device do not interleave (the value a
\* worker read is still the Device's value when it writes the sum back), and
\* once the ticks are over a never-cleared Device's total is the number of probe
\* results merged into it.
C4_NoLostUpdate ==
  /\ \A t \in Ticks :
       (worker[t].pc = "store" /\ worker[t].device \notin cleared)
         => heap[worker[t].device][Head(worker[t].todo)] = worker[t].tmp
  /\ \A d \in 1..Len(heap) :
       (AllQuiet /\ d \notin cleared)
         => heap[d].total = Cardinality(ProbesOf(d))

\* C5: at no time are two probes of the same Device outstanding.
C5_OneProbePerDevice ==
  \A t1, t2 \in Ticks :
    (t1 # t2 /\ worker[t1].pc = "probe" /\ worker[t2].pc = "probe")
      => worker[t1].device # worker[t2].device

\* C6: a Device removed after the tick started and before its probe had an
\* outcome gets no update_device signal in that tick, its result is applied to
\* no Device (its fields stay as they were when it was removed), the list is
\* one shorter per removal, and when that removal was the tick's only list
\* change every other Device of the tick's start list is probed exactly once.
C6_RemovedMidTick ==
  /\ Len(devices) = Len(heap) - Cardinality({d \in 1..Len(heap) : removed[d] # <<>>})
  /\ \A t \in Ticks :
       /\ \A d \in hist[t].removedMid :
            /\ EventsFor(t, d) = 0
            /\ heap[d] = removed[d][1]
       /\ (/\ worker[t].pc = "done"
           /\ hist[t].mutations = 1
           /\ Cardinality(hist[t].removedMid) = 1)
            => \A d \in Range(hist[t].start) \ hist[t].removedMid : EventsFor(t, d) = 1

\* C7: a tick probes only the Devices that were in the list when it started: a
\* Device added while the tick runs is not probed by it and gets no
\* update_device signal in it.
C7_AddedMidTick ==
  \A t \in Ticks :
    /\ \A k \in 1..Len(hist[t].log) :
         hist[t].log[k].kind = "update" => hist[t].log[k].device \in Range(hist[t].start)
    /\ \A d \in hist[t].addedMid :
         /\ EventsFor(t, d) = 0
         /\ ~(worker[t].device = d /\ Active(t))

\* C8: a tick emits finished at most once and after all its update_device
\* signals; run() has returned exactly when finished was emitted, and until then
\* run() can always take its next step; a tick during which the list was not
\* changed emits exactly one update_device per Device of its K Devices, in list
\* order with the row index, and then finished (K = 0: finished alone).
C8_TickEvents ==
  \A t \in Ticks :
    LET L == hist[t].log
        n == Len(L)
        K == Len(hist[t].start)
    IN /\ \A k \in 1..n : L[k].kind = "finished" => k = n
       /\ worker[t].pc = "done" <=> (n > 0 /\ L[n].kind = "finished")
       /\ worker[t].pc = "none" => n = 0
       /\ Active(t) => ENABLED run(t)
       /\ (worker[t].pc = "done" /\ hist[t].mutations = 0)
            => /\ n = K + 1
               /\ \A k \in 1..K :
                    /\ L[k].kind = "update"
                    /\ L[k].index = k - 1
                    /\ L[k].device = hist[t].start[k]

\* a tick over a Device, the list untouched, has returned
C8_Witness ==
  \E t \in Ticks :
    worker[t].pc = "done" /\ hist[t].mutations = 0 /\ Len(hist[t].start) >= 1

\* C9: within a tick every update_device is emitted as soon as its own probe has
\* an outcome (at the probe's own duration after the tick started), so the
\* signals arrive in ascending order of probe duration.
C9_CompletionOrder ==
  \A t \in Ticks :
    \A j \in 1..Len(Updates(t)) :
      /\ EmitTime(t, j) = ProbeTime(Updates(t)[j].result)
      /\ \A i \in 1..(j - 1) :
           ProbeTime(Updates(t)[i].result) <= ProbeTime(Updates(t)[j].result)

\* the list holds the Devices added and not removed, oldest first
C10_Surviving ==
  /\ \A i, j \in 1..Len(devices) : i < j => devices[i] < devices[j]
  /\ Range(devices) = {d \in 1..Len(heap) : removed[d] = <<>>}

\* remove_device(index) deletes the element at an in-range index and shifts the
\* later ones down, and changes nothing for an index out of range; add_device
\* with an address appends the new Device
C10_Step ==
  /\ (lastCall'.n # lastCall.n /\ lastCall'.op = "remove_device")
       => LET i == lastCall'.index
          IN IF 0 <= i /\ i < Len(devices)
             THEN /\ Len(devices') = Len(devices) - 1
                  /\ \A j \in 1..Len(devices') :
                       devices'[j] = IF j <= i THEN devices[j] ELSE devices[j + 1]
             ELSE devices' = devices
  /\ (lastCall'.n # lastCall.n /\ lastCall'.op = "add_device" /\ lastCall'.ip # <<>>)
       => /\ Len(devices') = Len(devices) + 1
          /\ \A j \in 1..Len(devices) : devices'[j] = devices[j]
          /\ devices'[Len(devices')] = Len(heap')
          /\ Len(heap') = Len(heap) + 1

\* C10: after any sequence of add_device and remove_device calls the list is the
\* added and not removed Devices in insertion order; remove_device with an
\* in-range index removes exactly that element and keeps the order of the rest,
\* and with an out-of-range index leaves the list unchanged.
C10_InsertionOrder == [](C10_Surviving) /\ [][C10_Step]_vars

\* three Devices were added and the middle one removed
C10_Witness ==
  devices = <<1, 3>> /\ lastCall.op = "remove_device" /\ lastCall.index = 1

\* C11: add_device with an empty address changes nothing, whatever the name
\* argument: the list, every Device's fields and the auto-name counter are after
\* the call what they were before it.
C11_EmptyAddressRejected ==
  [][(lastCall'.n # lastCall.n /\ lastCall'.op = "add_device" /\ lastCall'.ip = <<>>)
       => /\ devices' = devices
          /\ heap' = heap
          /\ unnamed_count' = unnamed_count]_vars

\* add_device was called with an empty address and a blank name on a list that
\* holds an auto-named Device
C11_Witness ==
  /\ lastCall.op = "add_device" /\ lastCall.ip = <<>> /\ lastCall.name = <<" ">>
  /\ Len(devices) >= 1 /\ unnamed_count >= 1

\* C12: the k-th Device that add_device made a name for is named "Switch" followed
\* by k, whatever was removed or added with a name of its own in between, so no
\* two auto-named Devices have the same name.
C12_AutoNamesNotReused ==
  /\ \A k \in 1..Len(autoNamed) : heap[autoNamed[k]].name = SwitchName(k)
  /\ \A i, j \in 1..Len(autoNamed) :
       i # j => heap[autoNamed[i]].name # heap[autoNamed[j]].name

\* Switch1 was removed, a Device was added under its own name, and the next
\* auto-named Device was added after that
C12_Witness ==
  /\ autoNamed = <<1, 3>>
  /\ removed[1] # <<>>
  /\ devices = <<2, 3>>
  /\ lastCall.op = "add_device" /\ Strip(lastCall.name) = <<>>

\* C13: a call of clear_stats leaves every Device of the list with success, fail
\* and total 0 and with the ip, name and last_result it had, and leaves the list,
\* the running flag and the auto-name counter as they were.
C13_ClearStats ==
  [][(lastCall'.n # lastCall.n /\ lastCall'.op = "clear_stats")
       => /\ devices' = devices
          /\ running' = running
          /\ unnamed_count' = unnamed_count
          /\ Len(heap') = Len(heap)
          /\ \A d \in Range(devices) :
               /\ heap'[d].success = 0 /\ heap'[d].fail = 0 /\ heap'[d].total = 0
               /\ heap'[d].ip = heap[d].ip
               /\ heap'[d].name = heap[d].name
               /\ heap'[d].last_result = heap[d].last_result]_vars

\* clear_stats was the last call, after a tick had found a Device reachable and
\* counted it: the Device's counters are 0 and its last_result is still reachable
C13_Witness ==
  /\ lastCall.op = "clear_stats"
  /\ AllQuiet
  /\ \E d \in Range(devices) :
       /\ d \in cleared
       /\ \E t \in Ticks : EventsFor(t, d) >= 1
       /\ heap[d].total = 0 /\ heap[d].success = 0 /\ heap[d].fail = 0
       /\ heap[d].last_result = TRUE

\* C14: start() called while monitoring is running, and stop() called while it is
\* stopped, leave the running flag, the timer's being armed and the time left
\* until its next timeout as they were.
C14_StartStopIdempotent ==
  [][/\ (lastCall'.n # lastCall.n /\ lastCall'.op = "start" /\ running)
          => /\ running' = running
             /\ timerActive' = timerActive
             /\ timerRemaining' = timerRemaining
     /\ (lastCall'.n # lastCall.n /\ lastCall'.op = "stop" /\ ~running)
          => /\ running' = running
             /\ timerActive' = timerActive
             /\ timerRemaining' = timerRemaining]_vars

\* C15: stop() does not cancel a tick in flight: with the worker threads
\* scheduled fairly and every probe ending, every tick that was started ends, and
\* when it has ended it has emitted an update_device for every Device of its
\* start list and then finished; and the timer starts a tick only while
\* monitoring is running (none between stop() and the next start()).
C15_StopKeepsTick ==
  /\ \A t \in 1..MaxMonitorTicks : (worker[t].pc # "none") ~> (worker[t].pc = "done")
  /\ [](\A t \in 1..MaxMonitorTicks :
          worker[t].pc = "done"
            => /\ hist[t].log[Len(hist[t].log)].kind = "finished"
               /\ \A d \in Range(hist[t].start) : EventsFor(t, d) >= 1)
  /\ [][nticks' # nticks => running]_vars

\* stop() was called while a probe of the tick was outstanding
C15_Witness ==
  \E t \in Ticks : ~running /\ worker[t].pc = "probe" /\ lastCall.op = "toggle_start_stop"

\* C16: a probe that faults (ping exits non-zero, subprocess.run times out or
\* cannot launch it) adds exactly 1 to fail and to total, leaves success alone
\* and makes last_result unreachable: once the ticks are over, a never-cleared
\* Device all of whose N probes faulted has fail = N, total = N, success = 0 and
\* last_result unreachable.  A fault never aborts the tick: run() can always
\* take its next step, and it has returned only after emitting finished.
C16_FaultCounted ==
  /\ \A d \in 1..Len(heap) :
       LET probes == ProbesOf(d)
           N == Cardinality(probes)
       IN (/\ AllQuiet
           /\ d \notin cleared
           /\ N >= 1
           /\ \A p \in probes : hist[p[1]].log[p[2]].result \in {"nonzero", "raise"})
          => /\ heap[d].fail = N
             /\ heap[d].total = N
             /\ heap[d].success = 0
             /\ heap[d].last_result = FALSE
  /\ \A t \in Ticks :
       /\ Active(t) => ENABLED run(t)
       /\ worker[t].pc = "done" => hist[t].log[Len(hist[t].log)].kind = "finished"

\* a Device no probe has had an outcome for
NeverProbed(d) == \A t \in Ticks : ~Resolved(t, d)

\* a Device that was probed, every probe of it faulted and is merged
LastUnreachable(d) ==
  /\ ProbesOf(d) # {}
  /\ \A p \in ProbesOf(d) : hist[p[1]].log[p[2]].result \in {"nonzero", "raise"}
  /\ ~MergeInFlight(d)

\* C17: until its first probe completes a Device's last_result is a value of its
\* own (unknown): a Device with no completed probe never has the last_result of
\* a Device whose last probe found it unreachable, cleared or not.
C17_UnknownUntilProbed ==
  \A d1, d2 \in 1..Len(heap) :
    (NeverProbed(d1) /\ LastUnreachable(d2)) => heap[d1].last_result # heap[d2].last_result

\* C18: the steps of a tick (ping_all, the worker's run, update_device_row) leave
\* the list, the number of Devices and every Device's ip and name as they were;
\* the only Devices they change are those a worker is merging a result into.
C18_EngineFrame ==
  [][lastCall' = lastCall
       => /\ devices' = devices
          /\ Len(heap') = Len(heap)
          /\ \A d \in 1..Len(heap) :
               /\ heap'[d].ip = heap[d].ip
               /\ heap'[d].name = heap[d].name
               /\ heap'[d].is_active = heap[d].is_active
               /\ heap'[d] # heap[d]
                    => \E t \in Ticks :
                         worker[t].device = d /\ worker[t].pc \in {"store", "last"}]_vars

\* a tick has probed a Device, counted the result and ended, and its signal has
\* reached update_device_row
C18_Witness ==
  \E t \in Ticks :
    /\ worker[t].pc = "done"
    /\ delivered[t] >= 1
    /\ devices # <<>>
    /\ heap[devices[1]].total >= 1

\* C19: when update_device_row handles an update_device(index, device) signal,
\* index is a row of the list as it is then (0 <= index < its length) and the
\* Device at that position is the Device the signal carries.
C19_RowOfDevice ==
  [][\A t \in Ticks :
       delivered'[t] # delivered[t]
         => LET e == Updates(t)[delivered'[t]]
            IN /\ 0 <= e.index /\ e.index < Len(devices)
               /\ devices[e.index + 1] = e.device]_vars

\* the timer is armed exactly while monitoring is running, with ping_interval
\* seconds as its period
C20_Armed ==
  /\ timerActive <=> running
  /\ timerActive => timerInterval = ping_interval * 1000

\* a call of open_settings: cancelled, it changes nothing; saved while stopped,
\* it leaves the timer unarmed; saved while running, it restarts the timer with
\* the interval saved
C20_Step ==
  /\ (lastCall'.n # lastCall.n /\ lastCall'.op = "open_settings_cancel")
       => UNCHANGED <<running, timerActive, timerInterval, timerRemaining, settings>>
  /\ (lastCall'.n # lastCall.n /\ lastCall'.op = "open_settings")
       => /\ ping_interval' = lastCall'.index
          /\ running' = running
          /\ IF running
             THEN /\ timerActive'
                  /\ timerInterval' = lastCall'.index * 1000
                  /\ timerRemaining' = lastCall'.index * 1000
             ELSE ~timerActive'

\* C20: after any sequence of start, stop, toggle_start_stop and open_settings
\* (saved or cancelled) the timer is armed if and only if running is true, and
\* then its period is ping_interval seconds; saving the settings while stopped
\* never arms the timer, saving them while running re-arms it with the new
\* interval.
C20_TimerFollowsRunning == [](C20_Armed) /\ [][C20_Step]_vars

\* the settings were saved with a new interval while monitoring was running:
\* the timer runs with the new period
C20_Witness ==
  /\ lastCall.op = "open_settings" /\ lastCall.index = 2
  /\ running /\ timerActive /\ timerInterval = 2000 /\ timerRemaining = 2000

====
